---- MODULE Spec2Model ----
(***************************************************************************)
(* sinuous: the Sonos engine task (SonosService, src/src/sonos.rs) and the *)
(* presentation loop (App::run, src/src/app.rs) joined by two bounded      *)
(* tokio mpsc channels.                                                    *)
(*                                                                         *)
(* The engine owns the group list, the selection and the cached playback   *)
(* values.  Every device call is an input of the model: the value a query  *)
(* returns and whether a call fails are chosen with \E.                     *)
(***************************************************************************)
EXTENDS Integers, Sequences, FiniteSets, TLC

\* ------------------------------------------------------------------ bounds
\* Largest number of groups the queried device reports (uuids are 1..MaxGroups).
MaxGroups == 2

\* --------------------------------------------------------------- constants
\* mpsc::channel(2) for updates and mpsc::channel(2) for commands.
UpdateCapacity == 2
CommandCapacity == 2

\* ------------------------------------------------------------ value spaces
Uuids == 1..MaxGroups

None == "None"

\* What SonosService::new puts in the cache.
InitVolume == 0
InitQueue == <<>>

\* What the device answers to is_playing / volume / track / queue.
DevPlaying == {TRUE}
DevVolumes == {30}
DevTracks == {"track"}
DevQueues == {<<"track">>}

ViewModes == {"Queue", "Favorites"}

VARIABLES
    \* ---- engine task (SonosService)
    provided_devices,   \* the argument of start(): addresses and names
    phase,              \* "Initializing" | "Running" | "Terminated"
    result,             \* what inner_loop returned: "none" | "Ok" | "Err" | "Panic"
    pc,                 \* position in the loop: "select" | "drain" | "send_update"
    needs_refresh,      \* local of the command branch
    speakers_by_uuid,   \* keys of the BTreeMap
    groups,             \* Vec<SpeakerGroup>
    selected_group,
    current_view,
    favorites,
    selected_favorite,
    cached_is_playing,
    cached_volume,
    cached_now_playing,
    cached_queue,
    \* ---- channels
    cmd_chan,           \* commands buffered in the command channel
    cmd_tx_open,        \* the presentation loop still holds cmd_tx
    update_chan,        \* updates buffered in the update channel
    update_rx_open,     \* the presentation loop still holds update_rx
    \* ---- presentation loop (App::run)
    ui_pc,              \* "select" | "send" | "dropping" | "done" | "panicked"
    ui_state,           \* State::Connecting or State::Ready(snapshot)
    ui_cmd,             \* the command cmd_tx.send is suspended on
    \* ---- history of the engine, read by the properties only
    readIn,             \* per cached field: which refresh call assigned it
    wake                \* what the current (or last) wake of the loop did

engineVars == <<provided_devices, phase, result, pc, needs_refresh,
                speakers_by_uuid, groups,
                selected_group, current_view, favorites, selected_favorite>>
cacheVars == <<cached_is_playing, cached_volume, cached_now_playing, cached_queue>>
chanVars == <<cmd_chan, cmd_tx_open, update_chan, update_rx_open>>
uiVars == <<ui_pc, ui_state, ui_cmd>>
histVars == <<readIn, wake>>
vars == <<engineVars, cacheVars, chanVars, uiVars, histVars>>

\* ------------------------------------------------------------ group model
\* SpeakerGroup::new: the coordinator is moved to the front of the member list;
\* a coordinator that is not a member is the expect() panic.
PositionOf(members, c) ==
    IF \E i \in 1..Len(members) : members[i] = c
    THEN CHOOSE i \in 1..Len(members) :
            members[i] = c /\ \A j \in 1..(i - 1) : members[j] # c
    ELSE 0

RemoveAt(s, i) == SubSeq(s, 1, i - 1) \o SubSeq(s, i + 1, Len(s))

\* A constructor that keeps the members as reported.
SpeakerGroup_new_inplace(coordinator, speakers) ==
    LET at == PositionOf(speakers, coordinator)
    IN  IF at = 0
        THEN [panic |-> TRUE, coordinator |-> coordinator, speakers |-> <<>>]
        ELSE [panic |-> FALSE, coordinator |-> coordinator,
              speakers |-> speakers]

\* A constructor without the expect(): a coordinator that is not a member
\* leaves the list as reported.
SpeakerGroup_new_unchecked(coordinator, speakers) ==
    LET at == PositionOf(speakers, coordinator)
    IN  IF at = 0
        THEN [panic |-> FALSE, coordinator |-> coordinator,
              speakers |-> speakers]
        ELSE [panic |-> FALSE, coordinator |-> coordinator,
              speakers |-> <<speakers[at]>> \o RemoveAt(speakers, at)]

SpeakerGroup_new(coordinator, speakers) ==
    LET at == PositionOf(speakers, coordinator)
    IN  IF at = 0
        THEN [panic |-> TRUE, coordinator |-> coordinator, speakers |-> <<>>]
        ELSE [panic |-> FALSE, coordinator |-> coordinator,
              speakers |-> <<speakers[at]>> \o RemoveAt(speakers, at)]

\* SpeakerGroup::name: the member names joined by " + " (a name is the uuid here).
SpeakerGroup_name(g) == g.speakers

\* Vec::get with a 0-based index: Some(s[i]) exactly when i is in range.
IsSome(s, i) == i < Len(s)
Get(s, i) == s[i + 1]

\* ------------------------------------------------------------- selection
select_prev_group(sel, len) == IF sel = 0 THEN len ELSE sel - 1

select_next_group(sel, len) == IF sel + 1 >= len THEN 0 ELSE sel + 1

\* A lookup that always takes the first group.
current_speaker_first(grps, sel, spk) ==
    IF grps = <<>> THEN {} ELSE {grps[1].coordinator} \cap spk

\* current_speaker: the coordinator of the selected group, if it is a key of
\* speakers_by_uuid.  The Option is a set: {} is None, {u} is Some(u).
current_speaker(grps, sel, spk) ==
    IF ~IsSome(grps, sel) THEN {}
    ELSE {Get(grps, sel).coordinator} \cap spk

\* ---------------------------------------------------------------- refresh
Fields == {"is_playing", "volume", "now_playing", "queue"}

\* The answers of the four device queries of one refresh call; fail names the
\* first query that fails ("none": all succeed).
RefreshAnswers ==
    [fail : {"none", "is_playing", "volume", "track", "queue"},
     playing : DevPlaying, volume : DevVolumes, track : DevTracks,
     queue : DevQueues]

\* A field assigned by an earlier call is no longer one of the last call's.
Age(tags) == [f \in Fields |-> IF tags[f] = "last" THEN "earlier" ELSE tags[f]]

\* refresh_state with the cache as cur: the cache after the call, whether the
\* call returned Ok, and the device it queried ({}: none).  The four assignments happen in order, each after its
\* own query, and a failing query returns at once.
refresh_state(cur, grps, sel, spk, dev) ==
    LET s1 == [cur EXCEPT !.is_playing = dev.playing,
                          !.tags = [Age(cur.tags) EXCEPT !["is_playing"] = "last"]]
        s2 == [s1 EXCEPT !.volume = dev.volume, !.tags["volume"] = "last"]
        s3 == [s2 EXCEPT !.now_playing = dev.track, !.tags["now_playing"] = "last"]
        s4 == [s3 EXCEPT !.queue = dev.queue, !.tags["queue"] = "last"]
        speaker == {Get(grps, sel).coordinator}
    IN  IF ~IsSome(grps, sel) THEN [ok |-> FALSE, cache |-> cur, speaker |-> {}]
        ELSE IF Get(grps, sel).coordinator \notin spk
             THEN [ok |-> FALSE, cache |-> cur, speaker |-> {}]
        ELSE IF dev.fail = "is_playing"
             THEN [ok |-> FALSE, cache |-> cur, speaker |-> speaker]
        ELSE IF dev.fail = "volume"
             THEN [ok |-> FALSE, cache |-> s1, speaker |-> speaker]
        ELSE IF dev.fail = "track"
             THEN [ok |-> FALSE, cache |-> s2, speaker |-> speaker]
        ELSE IF dev.fail = "queue"
             THEN [ok |-> FALSE, cache |-> s3, speaker |-> speaker]
        ELSE [ok |-> TRUE, cache |-> s4, speaker |-> speaker]

\* The engine's cache as one record.
Cache ==
    [is_playing |-> cached_is_playing, volume |-> cached_volume,
     now_playing |-> cached_now_playing, queue |-> cached_queue, tags |-> readIn]

\* ---------------------------------------------------------------- snapshot
\* build_state: names of all groups plus a copy of the selection and the cache.
build_state ==
    [is_playing |-> cached_is_playing,
     current_volume |-> cached_volume,
     group_names |-> [i \in 1..Len(groups) |-> SpeakerGroup_name(groups[i])],
     selected_group |-> selected_group,
     now_playing |-> cached_now_playing,
     queue |-> cached_queue,
     current_view |-> current_view,
     favorites |-> favorites,
     selected_favorite |-> selected_favorite]

\* ---------------------------------------------------------------- strings
\* A string is a sequence of characters; the container scheme is one token,
\* since no replacement below can produce any of its characters.
ContainerScheme == "x-rincon-cpcontainer:"

StartsWith(s, pat) == Len(s) >= Len(pat) /\ SubSeq(s, 1, Len(pat)) = pat

\* str::replace: every non-overlapping match of pat, left to right.
RECURSIVE Replace(_, _, _)
Replace(s, pat, rep) ==
    IF s = <<>> THEN <<>>
    ELSE IF StartsWith(s, pat)
         THEN rep \o Replace(SubSeq(s, Len(pat) + 1, Len(s)), pat, rep)
         ELSE <<Head(s)>> \o Replace(Tail(s), pat, rep)

html_unescape(s) ==
    LET a == Replace(s, <<"&", "a", "m", "p", ";">>, <<"&">>)
        b == Replace(a, <<"&", "l", "t", ";">>, <<"<">>)
        c == Replace(b, <<"&", "g", "t", ";">>, <<">">>)
        d == Replace(c, <<"&", "q", "u", "o", "t", ";">>, <<"\"">>)
    IN  Replace(d, <<"&", "a", "p", "o", "s", ";">>, <<"'">>)

\* ---------------------------------------------------------------- commands
\* Action (the command enum): n carries VolAdjust's delta or PlayFavorite's
\* index, s carries SwitchView's mode or NavigateFavorites' direction.
Cmd(type, n, s) == [type |-> type, n |-> n, s |-> s]
Play == Cmd("Play", 0, "")
Pause == Cmd("Pause", 0, "")
NextTrack == Cmd("Next", 0, "")
PrevTrack == Cmd("Prev", 0, "")
NextSpeaker == Cmd("NextSpeaker", 0, "")
PrevSpeaker == Cmd("PrevSpeaker", 0, "")
VolAdjust(v) == Cmd("VolAdjust", v, "")
SwitchView(mode) == Cmd("SwitchView", 0, mode)
NavigateFavorites(dir) == Cmd("NavigateFavorites", 0, dir)
PlayFavorite(index) == Cmd("PlayFavorite", index, "")
Nop == Cmd("Nop", 0, "")

\* Which device calls of one command succeed: the queue clear, the first call
\* after it and the second one.
CallOutcomes == [clear_queue : BOOLEAN, first : BOOLEAN, second : BOOLEAN]

Call(op, speaker, arg) == [op |-> op, speaker |-> speaker, arg |-> arg]

\* The engine fields handle_command reads or writes, as one record.
Engine ==
    [groups |-> groups, speakers_by_uuid |-> speakers_by_uuid,
     selected_group |-> selected_group, current_view |-> current_view,
     favorites |-> favorites, selected_favorite |-> selected_favorite]

\* A command's outcome: res is the Result<bool> ("true" / "false" for Ok,
\* "Err"), e the engine after it, calls the device calls it made, in order.
Outcome(res, e, calls) == [res |-> res, e |-> e, calls |-> calls]

\* A transport arm that makes its call whether or not a coordinator resolves.
Transport_unchecked(e, op, arg, dev) ==
    LET speaker == current_speaker(e.groups, e.selected_group, e.speakers_by_uuid)
    IN  Outcome(IF dev.first THEN "true" ELSE "Err", e,
                <<Call(op, speaker, arg)>>)

\* A transport arm that passes no argument on to the device.
Transport_noarg(e, op, arg, dev) ==
    LET speaker == current_speaker(e.groups, e.selected_group, e.speakers_by_uuid)
    IN  IF speaker = {}
        THEN Outcome("Err", e, <<>>)
        ELSE Outcome(IF dev.first THEN "true" ELSE "Err", e,
                     <<Call(op, speaker, <<>>)>>)

\* The transport and volume arms: resolve the coordinator, one device call.
Transport(e, op, arg, dev) ==
    LET speaker == current_speaker(e.groups, e.selected_group, e.speakers_by_uuid)
    IN  IF speaker = {}
        THEN Outcome("Err", e, <<>>)
        ELSE Outcome(IF dev.first THEN "true" ELSE "Err", e,
                     <<Call(op, speaker, arg)>>)

\* A PlayFavorite arm that enqueues every favorite as a single track.
play_favorite_astrack(e, index, dev) ==
    LET speaker == current_speaker(e.groups, e.selected_group, e.speakers_by_uuid)
        favorite == Get(e.favorites, index)
        clear == Call("clear_queue", speaker, <<>>)
        one == Call("queue_next", speaker,
                    <<html_unescape(favorite.uri), html_unescape(favorite.metadata)>>)
        two == Call("next", speaker, <<>>)
    IN  IF ~IsSome(e.favorites, index) THEN Outcome("false", e, <<>>)
        ELSE IF speaker = {} THEN Outcome("Err", e, <<>>)
        ELSE IF ~dev.first THEN Outcome("Err", e, <<clear, one>>)
        ELSE IF ~dev.second THEN Outcome("Err", e, <<clear, one, two>>)
        ELSE Outcome("true", e, <<clear, one, two>>)

\* A PlayFavorite arm for which the queue clear is not best-effort: its
\* failure fails the command.
play_favorite_strictclear(e, index, dev) ==
    LET speaker == current_speaker(e.groups, e.selected_group, e.speakers_by_uuid)
        favorite == Get(e.favorites, index)
        unescaped_uri == html_unescape(favorite.uri)
        container == StartsWith(unescaped_uri, <<ContainerScheme>>)
        clear == Call("clear_queue", speaker, <<>>)
        one == IF container
               THEN Call("AddURIToQueue", speaker, <<favorite.uri, favorite.metadata>>)
               ELSE Call("queue_next", speaker,
                         <<unescaped_uri, html_unescape(favorite.metadata)>>)
        two == IF container
               THEN Call("play", speaker, <<>>)
               ELSE Call("next", speaker, <<>>)
    IN  IF ~IsSome(e.favorites, index) THEN Outcome("false", e, <<>>)
        ELSE IF speaker = {} THEN Outcome("Err", e, <<>>)
        ELSE IF ~dev.clear_queue THEN Outcome("Err", e, <<clear>>)
        ELSE IF ~dev.first THEN Outcome("Err", e, <<clear, one>>)
        ELSE IF ~dev.second THEN Outcome("Err", e, <<clear, one, two>>)
        ELSE Outcome("true", e, <<clear, one, two>>)

\* A PlayFavorite arm that treats an index outside the list as an error.
play_favorite_rejects(e, index, dev) ==
    LET speaker == current_speaker(e.groups, e.selected_group, e.speakers_by_uuid)
        favorite == Get(e.favorites, index)
        unescaped_uri == html_unescape(favorite.uri)
        container == StartsWith(unescaped_uri, <<ContainerScheme>>)
        clear == Call("clear_queue", speaker, <<>>)
        one == IF container
               THEN Call("AddURIToQueue", speaker, <<favorite.uri, favorite.metadata>>)
               ELSE Call("queue_next", speaker,
                         <<unescaped_uri, html_unescape(favorite.metadata)>>)
        two == IF container
               THEN Call("play", speaker, <<>>)
               ELSE Call("next", speaker, <<>>)
    IN  IF ~IsSome(e.favorites, index) THEN Outcome("Err", e, <<>>)
        ELSE IF speaker = {} THEN Outcome("Err", e, <<>>)
        ELSE IF ~dev.first THEN Outcome("Err", e, <<clear, one>>)
        ELSE IF ~dev.second THEN Outcome("Err", e, <<clear, one, two>>)
        ELSE Outcome("true", e, <<clear, one, two>>)

\* The PlayFavorite arm.
play_favorite(e, index, dev) ==
    LET speaker == current_speaker(e.groups, e.selected_group, e.speakers_by_uuid)
        favorite == Get(e.favorites, index)
        unescaped_uri == html_unescape(favorite.uri)
        unescaped_metadata == html_unescape(favorite.metadata)
        container == StartsWith(unescaped_uri, <<ContainerScheme>>)
        clear == Call("clear_queue", speaker, <<>>)
        one == IF container
               THEN Call("AddURIToQueue", speaker, <<favorite.uri, favorite.metadata>>)
               ELSE Call("queue_next", speaker, <<unescaped_uri, unescaped_metadata>>)
        two == IF container
               THEN Call("play", speaker, <<>>)
               ELSE Call("next", speaker, <<>>)
    IN  IF ~IsSome(e.favorites, index) THEN Outcome("false", e, <<>>)
        ELSE IF speaker = {} THEN Outcome("Err", e, <<>>)
        ELSE IF ~dev.first THEN Outcome("Err", e, <<clear, one>>)
        ELSE IF ~dev.second THEN Outcome("Err", e, <<clear, one, two>>)
        ELSE Outcome("true", e, <<clear, one, two>>)

\* A navigation that wraps around at both ends of the list.
navigate_favorites_wrapping(e, direction) ==
    IF direction = "Up"
    THEN [e EXCEPT !.selected_favorite =
                       IF @ > 0 THEN @ - 1
                       ELSE IF Len(e.favorites) = 0 THEN 0
                       ELSE Len(e.favorites) - 1]
    ELSE [e EXCEPT !.selected_favorite =
                       IF @ + 1 < Len(e.favorites) THEN @ + 1 ELSE 0]

\* The NavigateFavorites arm: the index moves by one and saturates at 0 and
\* at favorites.len().saturating_sub(1).
navigate_favorites(e, direction) ==
    IF direction = "Up"
    THEN IF e.selected_favorite > 0
         THEN [e EXCEPT !.selected_favorite = @ - 1]
         ELSE e
    ELSE IF e.selected_favorite <
                (IF Len(e.favorites) = 0 THEN 0 ELSE Len(e.favorites) - 1)
         THEN [e EXCEPT !.selected_favorite = @ + 1]
         ELSE e

\* A router whose group-selection arms return Ok(false): selection as purely
\* local state.
handle_command_quiet(e, cmd, dev) ==
    CASE cmd.type = "NextSpeaker" ->
            Outcome("false",
                    [e EXCEPT !.selected_group =
                                  select_next_group(@, Len(e.groups))],
                    <<>>)
      [] cmd.type = "PrevSpeaker" ->
            Outcome("false",
                    [e EXCEPT !.selected_group =
                                  select_prev_group(@, Len(e.groups))],
                    <<>>)
      [] OTHER -> Outcome("false", e, <<>>)

\* handle_command on the engine e, the device calls succeeding as dev says.
handle_command(e, cmd, dev) ==
    CASE cmd.type = "Play" -> Transport(e, "play", <<>>, dev)
      [] cmd.type = "Pause" -> Transport(e, "pause", <<>>, dev)
      [] cmd.type = "Next" -> Transport(e, "next", <<>>, dev)
      [] cmd.type = "Prev" -> Transport(e, "previous", <<>>, dev)
      [] cmd.type = "VolAdjust" ->
            Transport(e, "set_volume_relative", <<cmd.n>>, dev)
      [] cmd.type = "NextSpeaker" ->
            Outcome("true",
                    [e EXCEPT !.selected_group =
                                  select_next_group(@, Len(e.groups))],
                    <<>>)
      [] cmd.type = "PrevSpeaker" ->
            Outcome("true",
                    [e EXCEPT !.selected_group =
                                  select_prev_group(@, Len(e.groups))],
                    <<>>)
      [] cmd.type = "SwitchView" ->
            Outcome("false", [e EXCEPT !.current_view = cmd.s], <<>>)
      [] cmd.type = "NavigateFavorites" ->
            Outcome("false", navigate_favorites(e, cmd.s), <<>>)
      [] cmd.type = "PlayFavorite" -> play_favorite(e, cmd.n, dev)
      [] cmd.type = "Nop" -> Outcome("false", e, <<>>)

\* ------------------------------------------------------------------- keys
\* handle_input: the command a key press stands for, given the snapshot shown.
handle_input(key, state) ==
    CASE key = "1" -> SwitchView("Queue")
      [] key = "2" -> SwitchView("Favorites")
      [] key \in {"Up", "k"} /\ state.current_view = "Favorites" ->
            NavigateFavorites("Up")
      [] key \in {"Down", "j"} /\ state.current_view = "Favorites" ->
            NavigateFavorites("Down")
      [] key = "Enter" /\ state.current_view = "Favorites" ->
            PlayFavorite(state.selected_favorite)
      [] key = "Space" -> IF state.is_playing THEN Pause ELSE Play
      [] key = "n" -> NextTrack
      [] key = "p" -> PrevTrack
      [] key = "[" -> VolAdjust(-2)
      [] key = "]" -> VolAdjust(2)
      [] key = "Tab" -> NextSpeaker
      [] key = "ShiftTab" -> PrevSpeaker
      [] OTHER -> Nop

\* ---------------------------------------------------------------- startup
\* What the queried device reports: (coordinator, members) per group.
Report(c, members) == [coordinator |-> c, members |-> members]

\* n devices, each a group of its own.
Singles(n) == [i \in 1..n |-> Report(i, <<i>>)]
\* n devices in one group, the last one its coordinator.
Joined(n) == <<Report(n, [i \in 1..n |-> i])>>
\* a report whose coordinator is not among its members.
Broken(n) == <<Report(n, [i \in 1..(n - 1) |-> i])>>
\* n + 1 devices in one group, the last but one its coordinator.
Middle(n) == <<Report(n, [i \in 1..(n + 1) |-> i])>>

\* Favorites as parse_favorite_playlists returns them.
Favorite(title, uri) ==
    [title |-> title, description |-> "", uri |-> uri, metadata |-> <<>>]
FavContainer == Favorite("playlist", <<ContainerScheme, "a">>)
FavTrack == Favorite("track", <<"x", "&", "a", "m", "p", ";">>)

\* One provided address or name with what its lookup returns: Ok(Some(device)),
\* Ok(None) or Err.
Found(device) == [answer |-> "Some", device |-> device]
NotFound == [answer |-> "None", device |-> 0]
Failed == [answer |-> "Err", device |-> 0]

\* No device given: the engine discovers.  Also the value left behind once
\* start() has moved the lists into get_speakers.
NoDevices == [ips |-> <<>>, names |-> <<>>]

\* What sonor::discover returns, if it is called.
Discovery(ok, devices) == [ok |-> ok, devices |-> devices]

\* The devices the entries of a list resolve to.
Resolved(lookups) ==
    {lookups[i].device :
        i \in {j \in 1..Len(lookups) : lookups[j].answer = "Some"}}

\* get_speakers: an address that does not connect is skipped whatever the
\* reason; a name that is not found is skipped, a name whose lookup returns Err
\* ends the function; discovery runs only if nothing was provided.
get_speakers(provided, discovered) ==
    IF \E i \in 1..Len(provided.names) : provided.names[i].answer = "Err"
    THEN [res |-> "Err", devices |-> {}]
    ELSE IF provided.ips = <<>> /\ provided.names = <<>>
    THEN IF discovered.ok
         THEN [res |-> "Ok", devices |-> discovered.devices]
         ELSE [res |-> "Err", devices |-> {}]
    ELSE [res |-> "Ok",
          devices |-> Resolved(provided.ips) \cup Resolved(provided.names)]

\* The inputs of one startup: what discovery finds (if it runs), which call
\* fails (if any), what the favorites fetch returns (if it succeeds), what the device
\* reports, what the first refresh is answered.
StartupInputs(founds, fails, fetches, lists, topologies, answers) ==
    [found : founds, fail : fails, fetch_ok : fetches, favorites : lists,
     topology : topologies, refresh : answers]

\* A failed startup that is only logged: the engine goes on into the loop.
Abort_continues(how) ==
    /\ phase' = "Running"
    /\ result' = how
    /\ provided_devices' = NoDevices
    /\ UNCHANGED <<pc, needs_refresh, speakers_by_uuid, groups, selected_group,
                   current_view, favorites, selected_favorite, cacheVars,
                   histVars>>

Abort(how) ==
    /\ phase' = "Terminated"
    /\ result' = how
    /\ provided_devices' = NoDevices
    /\ UNCHANGED <<pc, needs_refresh, speakers_by_uuid, groups, selected_group,
                   current_view, favorites, selected_favorite, cacheVars,
                   histVars>>

\* A startup for which the favorites fetch is one more call that must
\* succeed.
Startup_strictfetch(in) ==
    LET group_list ==
            [i \in 1..Len(in.topology) |->
                SpeakerGroup_new(in.topology[i].coordinator,
                                 in.topology[i].members)]
        built == [i \in 1..Len(group_list) |->
                     [coordinator |-> group_list[i].coordinator,
                      speakers |-> group_list[i].speakers]]
        speakers == get_speakers(provided_devices,
                                 Discovery(in.fail # "get_speakers", in.found))
        r == refresh_state(Cache, built, selected_group, speakers.devices,
                           in.refresh)
    IN  /\ phase = "Initializing"
        /\ IF speakers.res = "Err" \/ in.fail = "uuid" THEN Abort("Err")
           ELSE IF speakers.devices = {} THEN Abort("Err")
           ELSE IF in.fail = "zone_group_state" THEN Abort("Err")
           ELSE IF ~in.fetch_ok THEN Abort("Err")
           ELSE IF \E i \in 1..Len(group_list) : group_list[i].panic
                THEN Abort("Panic")
           ELSE /\ phase' = "Running"
                /\ favorites' = IF in.fetch_ok THEN in.favorites ELSE favorites
                /\ groups' = built
                /\ speakers_by_uuid' = speakers.devices
                /\ provided_devices' = NoDevices
                /\ cached_is_playing' = r.cache.is_playing
                /\ cached_volume' = r.cache.volume
                /\ cached_now_playing' = r.cache.now_playing
                /\ cached_queue' = r.cache.queue
                /\ readIn' = r.cache.tags
                /\ UNCHANGED <<result, pc, needs_refresh, selected_group,
                               current_view, selected_favorite, wake>>
        /\ UNCHANGED <<chanVars, uiVars>>

\* inner_loop up to the loop: resolve the devices, query the topology, fetch
\* the favorites, build the groups, refresh once.
Startup(in) ==
    LET group_list ==
            [i \in 1..Len(in.topology) |->
                SpeakerGroup_new(in.topology[i].coordinator,
                                 in.topology[i].members)]
        built == [i \in 1..Len(group_list) |->
                     [coordinator |-> group_list[i].coordinator,
                      speakers |-> group_list[i].speakers]]
        speakers == get_speakers(provided_devices,
                                 Discovery(in.fail # "get_speakers", in.found))
        r == refresh_state(Cache, built, selected_group, speakers.devices,
                           in.refresh)
    IN  /\ phase = "Initializing"
        /\ IF speakers.res = "Err" \/ in.fail = "uuid" THEN Abort("Err")
           ELSE IF speakers.devices = {} THEN Abort("Err")
           ELSE IF in.fail = "zone_group_state" THEN Abort("Err")
           ELSE IF \E i \in 1..Len(group_list) : group_list[i].panic
                THEN Abort("Panic")
           ELSE /\ phase' = "Running"
                /\ favorites' = IF in.fetch_ok THEN in.favorites ELSE favorites
                /\ groups' = built
                /\ speakers_by_uuid' = speakers.devices
                /\ provided_devices' = NoDevices
                /\ cached_is_playing' = r.cache.is_playing
                /\ cached_volume' = r.cache.volume
                /\ cached_now_playing' = r.cache.now_playing
                /\ cached_queue' = r.cache.queue
                /\ readIn' = r.cache.tags
                /\ UNCHANGED <<result, pc, needs_refresh, selected_group,
                               current_view, selected_favorite, wake>>
        /\ UNCHANGED <<chanVars, uiVars>>

\* ------------------------------------------------------------ engine loop
\* Largest number of commands of one wake that the history counts exactly.
MaxBatch == 2

UpTo(n) == IF n < MaxBatch THEN n + 1 ELSE MaxBatch

\* The history of one wake of the loop, kept from the wake's first step to
\* its last: which branch of select! ran, how many commands were handled,
\* whether one of them returned Ok(true), how many refresh calls were made,
\* how the last one ended and which device it queried, and what the last
\* PlayFavorite did.
NoWake == [kind |-> "none", cmds |-> 0, requested |-> FALSE, refreshes |-> 0,
           refresh |-> "none", target |-> {},
           played |-> [res |-> "none", calls |-> <<>>]]

\* The history's record of a PlayFavorite: what it returned and the device
\* calls it made.  Other commands leave the record as it is.
Played(cmd, r, before) ==
    IF cmd.type = "PlayFavorite" THEN [res |-> r.res, calls |-> r.calls]
    ELSE before

\* self.refresh_state().await with the device answers dev, in the wake w;
\* the Result is only logged by every caller in the loop.
CallRefresh(dev, w) ==
    LET r == refresh_state(Cache, groups, selected_group, speakers_by_uuid, dev)
    IN  /\ cached_is_playing' = r.cache.is_playing
        /\ cached_volume' = r.cache.volume
        /\ cached_now_playing' = r.cache.now_playing
        /\ cached_queue' = r.cache.queue
        /\ readIn' = r.cache.tags
        /\ wake' = [w EXCEPT !.refreshes = @ + 1,
                             !.refresh = IF r.ok THEN "Ok" ELSE "Err",
                             !.target = r.speaker]

\* A handler whose view switch is lost.
Apply_noswitch(r) ==
    /\ selected_group' = r.e.selected_group
    /\ current_view' = current_view
    /\ selected_favorite' = r.e.selected_favorite

\* The state changes of a handle_command call whose outcome is r.
Apply(r) ==
    /\ selected_group' = r.e.selected_group
    /\ current_view' = r.e.current_view
    /\ selected_favorite' = r.e.selected_favorite

\* A tick branch without its refresh call: what the loop would do if the
\* tick only published.
EngineTick_norefresh(dev) ==
    /\ phase = "Running" /\ pc = "select"
    /\ wake' = [NoWake EXCEPT !.kind = "tick"]
    /\ pc' = "send_update"
    /\ UNCHANGED <<provided_devices, phase, result, needs_refresh,
                   speakers_by_uuid, groups,
                   selected_group, current_view, favorites, selected_favorite,
                   cacheVars, readIn, chanVars, uiVars>>

\* A tick that also fetches the favorites again and loses them.
EngineTick_refetch(dev) ==
    /\ phase = "Running" /\ pc = "select"
    /\ CallRefresh(dev, [NoWake EXCEPT !.kind = "tick"])
    /\ pc' = "send_update"
    /\ favorites' = <<>>
    /\ UNCHANGED <<provided_devices, phase, result, needs_refresh,
                   speakers_by_uuid, groups,
                   selected_group, current_view, selected_favorite,
                   chanVars, uiVars>>

\* The tick branch: refresh, then send_update.
EngineTick(dev) ==
    /\ phase = "Running" /\ pc = "select"
    /\ CallRefresh(dev, [NoWake EXCEPT !.kind = "tick"])
    /\ pc' = "send_update"
    /\ UNCHANGED <<provided_devices, phase, result, needs_refresh,
                   speakers_by_uuid, groups,
                   selected_group, current_view, favorites, selected_favorite,
                   chanVars, uiVars>>

\* A flag that is also set by a command that failed.
Accumulate_onerror(flag, res) == flag \/ res # "false"

\* needs_refresh = r: the flag as it would be if each result overwrote it.
Accumulate_overwrite(flag, res) == res = "true"

\* let mut needs_refresh = false; ... Ok(r) => if r { needs_refresh = true; }
Accumulate(flag, res) == flag \/ res = "true"

\* A command branch without the drain loop: each command is a wake of its
\* own and is published before the next one is received.
EngineRecv_nodrain(dev) ==
    /\ phase = "Running" /\ pc = "select"
    /\ cmd_chan # <<>>
    /\ LET r == handle_command(Engine, Head(cmd_chan), dev)
       IN  /\ Apply(r)
           /\ needs_refresh' = Accumulate(FALSE, r.res)
           /\ wake' = [NoWake EXCEPT !.kind = "cmd", !.cmds = 1,
                                     !.requested = (r.res = "true"),
                                     !.played = Played(Head(cmd_chan), r, @)]
    /\ cmd_chan' = Tail(cmd_chan)
    /\ pc' = "send_update"
    /\ UNCHANGED <<provided_devices, phase, result, speakers_by_uuid, groups,
                   favorites,
                   cacheVars, readIn, cmd_tx_open, update_chan, update_rx_open,
                   uiVars>>

\* cmd_rx.recv() returns Some(c): the first command of the wake is handled.
EngineRecv(dev) ==
    /\ phase = "Running" /\ pc = "select"
    /\ cmd_chan # <<>>
    /\ LET r == handle_command(Engine, Head(cmd_chan), dev)
       IN  /\ Apply(r)
           /\ needs_refresh' = Accumulate(FALSE, r.res)
           /\ wake' = [NoWake EXCEPT !.kind = "cmd", !.cmds = 1,
                                     !.requested = (r.res = "true"),
                                     !.played = Played(Head(cmd_chan), r, @)]
    /\ cmd_chan' = Tail(cmd_chan)
    /\ pc' = "drain"
    /\ UNCHANGED <<provided_devices, phase, result, speakers_by_uuid, groups,
                   favorites,
                   cacheVars, readIn, cmd_tx_open, update_chan, update_rx_open,
                   uiVars>>

\* A recv that reports closure as soon as the senders are dropped, buffered
\* commands or not.
EngineClosed_eager ==
    /\ phase = "Running" /\ pc = "select"
    /\ ~cmd_tx_open
    /\ phase' = "Terminated"
    /\ result' = "Ok"
    /\ UNCHANGED <<provided_devices, pc, needs_refresh, speakers_by_uuid,
                   groups, selected_group,
                   current_view, favorites, selected_favorite, cacheVars,
                   histVars, chanVars, uiVars>>

\* cmd_rx.recv() returns None: every sender is dropped and nothing is
\* buffered.  The loop breaks and inner_loop returns Ok(()).
EngineClosed ==
    /\ phase = "Running" /\ pc = "select"
    /\ cmd_chan = <<>> /\ ~cmd_tx_open
    /\ phase' = "Terminated"
    /\ result' = "Ok"
    /\ UNCHANGED <<provided_devices, pc, needs_refresh, speakers_by_uuid,
                   groups, selected_group,
                   current_view, favorites, selected_favorite, cacheVars,
                   histVars, chanVars, uiVars>>

\* A drain loop that takes the newest buffered command first.
EngineDrain_newest(dev) ==
    /\ phase = "Running" /\ pc = "drain"
    /\ cmd_chan # <<>>
    /\ LET r == handle_command(Engine, cmd_chan[Len(cmd_chan)], dev)
       IN  /\ Apply(r)
           /\ needs_refresh' = Accumulate(needs_refresh, r.res)
           /\ wake' = [wake EXCEPT !.cmds = UpTo(@),
                                   !.requested = (@ \/ r.res = "true"),
                                   !.played = Played(cmd_chan[Len(cmd_chan)], r, @)]
    /\ cmd_chan' = SubSeq(cmd_chan, 1, Len(cmd_chan) - 1)
    /\ UNCHANGED <<provided_devices, phase, result, pc, speakers_by_uuid,
                   groups, favorites,
                   cacheVars, readIn, cmd_tx_open, update_chan, update_rx_open,
                   uiVars>>

\* while let Ok(c) = cmd_rx.try_recv(): one more command of the batch.
EngineDrain(dev) ==
    /\ phase = "Running" /\ pc = "drain"
    /\ cmd_chan # <<>>
    /\ LET r == handle_command(Engine, Head(cmd_chan), dev)
       IN  /\ Apply(r)
           /\ needs_refresh' = Accumulate(needs_refresh, r.res)
           /\ wake' = [wake EXCEPT !.cmds = UpTo(@),
                                   !.requested = (@ \/ r.res = "true"),
                                   !.played = Played(Head(cmd_chan), r, @)]
    /\ cmd_chan' = Tail(cmd_chan)
    /\ UNCHANGED <<provided_devices, phase, result, pc, speakers_by_uuid,
                   groups, favorites,
                   cacheVars, readIn, cmd_tx_open, update_chan, update_rx_open,
                   uiVars>>

\* try_recv() finds nothing: the batch ends with at most one refresh.
EngineDrained(dev) ==
    /\ phase = "Running" /\ pc = "drain"
    /\ cmd_chan = <<>>
    /\ IF needs_refresh
       THEN CallRefresh(dev, wake)
       ELSE UNCHANGED <<cacheVars, histVars>>
    /\ pc' = "send_update"
    /\ UNCHANGED <<provided_devices, phase, result, needs_refresh,
                   speakers_by_uuid, groups,
                   selected_group, current_view, favorites, selected_favorite,
                   chanVars, uiVars>>

\* A send_update that leaves the loop when the send fails, as its log line
\* ("exiting") reads.
EngineSendUpdate_exits ==
    /\ phase = "Running" /\ pc = "send_update"
    /\ IF ~update_rx_open
       THEN update_chan' = update_chan /\ phase' = "Terminated"
       ELSE /\ Len(update_chan) < UpdateCapacity
            /\ update_chan' = Append(update_chan, build_state)
            /\ phase' = phase
    /\ pc' = "select"
    /\ wake' = NoWake
    /\ UNCHANGED <<provided_devices, result, needs_refresh, speakers_by_uuid,
                   groups,
                   selected_group, current_view, favorites, selected_favorite,
                   cacheVars, readIn, cmd_chan, cmd_tx_open, update_rx_open,
                   uiVars>>

\* send_update: build the snapshot and send it; the send waits while the
\* channel is full and fails (logged only) once the receiver is dropped.
EngineSendUpdate ==
    /\ phase = "Running" /\ pc = "send_update"
    /\ IF ~update_rx_open
       THEN update_chan' = update_chan
       ELSE /\ Len(update_chan) < UpdateCapacity
            /\ update_chan' = Append(update_chan, build_state)
    /\ pc' = "select"
    /\ wake' = NoWake
    /\ UNCHANGED <<provided_devices, phase, result, needs_refresh,
                   speakers_by_uuid, groups,
                   selected_group, current_view, favorites, selected_favorite,
                   cacheVars, readIn, cmd_chan, cmd_tx_open, update_rx_open,
                   uiVars>>

\* ------------------------------------------------------ presentation loop
Connecting == [tag |-> "Connecting"]
Ready(s) == [tag |-> "Ready", s |-> s]

\* terminal.draw(render_ui): render_title_bar calls group_name(), which
\* indexes group_names[selected_group].
DrawPanics(state) ==
    state.tag = "Ready" /\ state.s.selected_group >= Len(state.s.group_names)

\* Leaving run(): cmd_tx is dropped first, update_rx after it.
UiLeave ==
    /\ ui_pc' = "dropping"
    /\ cmd_tx_open' = FALSE
    /\ UNCHANGED <<ui_state, ui_cmd, cmd_chan, update_chan, update_rx_open>>

\* cmd_tx.send(cmd).await: fails once the engine has dropped cmd_rx, waits
\* while the channel is full.
UiSendCmd(cmd) ==
    IF phase = "Terminated"
    THEN UiLeave
    ELSE IF Len(cmd_chan) < CommandCapacity
    THEN /\ cmd_chan' = Append(cmd_chan, cmd)
         /\ ui_pc' = "select"
         /\ ui_cmd' = Nop
         /\ UNCHANGED <<ui_state, cmd_tx_open, update_chan, update_rx_open>>
    ELSE /\ ui_pc' = "send"
         /\ ui_cmd' = cmd
         /\ UNCHANGED <<ui_state, cmd_chan, cmd_tx_open, update_chan,
                        update_rx_open>>

\* A key event: q leaves the loop, any other key is sent as a command once a
\* snapshot has been received.
UiKey(key) ==
    /\ ui_pc = "select"
    /\ IF key = "q" THEN UiLeave
       ELSE IF ui_state.tag = "Ready"
       THEN UiSendCmd(handle_input(key, ui_state.s))
       ELSE UNCHANGED <<chanVars, uiVars>>
    /\ UNCHANGED <<engineVars, cacheVars, histVars>>

\* The suspended cmd_tx.send completes.
UiSendResume ==
    /\ ui_pc = "send"
    /\ phase = "Terminated" \/ Len(cmd_chan) < CommandCapacity
    /\ UiSendCmd(ui_cmd)
    /\ UNCHANGED <<engineVars, cacheVars, histVars>>

\* update_rx.recv() returns an update: it becomes the state and is drawn.
UiRecvUpdate ==
    /\ ui_pc = "select"
    /\ update_chan # <<>>
    /\ ui_state' = Ready(Head(update_chan))
    /\ update_chan' = Tail(update_chan)
    /\ IF DrawPanics(ui_state')
       THEN /\ ui_pc' = "panicked"
            /\ cmd_tx_open' = FALSE
            /\ update_rx_open' = FALSE
       ELSE /\ ui_pc' = "select"
            /\ UNCHANGED <<cmd_tx_open, update_rx_open>>
    /\ UNCHANGED <<ui_cmd, cmd_chan, engineVars, cacheVars, histVars>>

\* update_rx.recv() returns None: the engine is gone and nothing is buffered.
UiRecvNone ==
    /\ ui_pc = "select"
    /\ update_chan = <<>> /\ phase = "Terminated"
    /\ UiLeave
    /\ UNCHANGED <<engineVars, cacheVars, histVars>>

\* update_rx is dropped.
UiDropUpdates ==
    /\ ui_pc = "dropping"
    /\ ui_pc' = "done"
    /\ update_rx_open' = FALSE
    /\ update_chan' = <<>>
    /\ UNCHANGED <<ui_state, ui_cmd, cmd_chan, cmd_tx_open, engineVars,
                   cacheVars, histVars>>

\* ------------------------------------------------------------------ system
\* SonosService::new, the two channels of App::run, State::Connecting.
Constructed ==
    /\ phase = "Initializing"
    /\ result = "none"
    /\ pc = "select"
    /\ needs_refresh = FALSE
    /\ speakers_by_uuid = {}
    /\ groups = <<>>
    /\ selected_group = 0
    /\ current_view = "Queue"
    /\ favorites = <<>>
    /\ selected_favorite = 0
    /\ cached_is_playing = FALSE
    /\ cached_volume = InitVolume
    /\ cached_now_playing = None
    /\ cached_queue = InitQueue
    /\ cmd_chan = <<>>
    /\ cmd_tx_open = TRUE
    /\ update_chan = <<>>
    /\ update_rx_open = TRUE
    /\ ui_pc = "select"
    /\ ui_state = Connecting
    /\ ui_cmd = Nop
    /\ readIn = [f \in Fields |-> "init"]
    /\ wake = NoWake

\* No device is named on the command line.
Init == provided_devices = NoDevices /\ Constructed

\* Refresh answers: every query succeeds, or the named one fails.
AnswersFailing(points) ==
    [fail : points, playing : DevPlaying, volume : DevVolumes,
     track : DevTracks, queue : DevQueues]

StartupFailures == {"none", "get_speakers", "uuid", "zone_group_state"}

\* ---- Spec: a playback session.  The operator plays, pauses, presses keys
\* that mean nothing and quits; every refresh query may fail; the device
\* reports 0..MaxGroups groups, of which the engine found the first device.
PlaybackKeys == {"Space", "x", "q"}
PlaybackStartups ==
    StartupInputs({{}, {1}}, StartupFailures, {TRUE},
                  {<<FavTrack, FavContainer>>},
                  {Singles(n) : n \in 0..MaxGroups} \cup {Broken(2)},
                  RefreshAnswers)

Next ==
    \/ \E in \in PlaybackStartups : Startup(in)
    \/ \E dev \in RefreshAnswers : EngineTick(dev)
    \/ \E dev \in CallOutcomes : EngineRecv(dev)
    \/ EngineClosed
    \/ \E dev \in CallOutcomes : EngineDrain(dev)
    \/ \E dev \in RefreshAnswers : EngineDrained(dev)
    \/ EngineSendUpdate
    \/ \E key \in PlaybackKeys : UiKey(key)
    \/ UiSendResume
    \/ UiRecvUpdate
    \/ UiRecvNone
    \/ UiDropUpdates

Spec == Init /\ [][Next]_vars

\* The engine task is polled until it completes: a device call returns, a
\* send into the update channel completes once there is room or the receiver
\* is gone.  select! picks its branches at random, so a branch that is ready
\* again and again is taken.  Leaving run() drops both channel ends.
Fairness ==
    /\ WF_vars(\E dev \in CallOutcomes : EngineDrain(dev))
    /\ WF_vars(\E dev \in RefreshAnswers : EngineDrained(dev))
    /\ WF_vars(EngineSendUpdate)
    /\ SF_vars(\E dev \in CallOutcomes : EngineRecv(dev))
    /\ SF_vars(EngineClosed)
    /\ WF_vars(UiDropUpdates)

FairSpec == Spec /\ Fairness

\* ---- SpecGroups: the operator switches between the groups.  The device
\* reports up to MaxGroups groups (each device alone, or all joined), the
\* engine found some or all of the devices, a refresh succeeds or fails as a
\* whole.
GroupKeys == {"Tab", "ShiftTab"}
GroupAnswers == AnswersFailing({"none", "is_playing"})
GroupStartups ==
    StartupInputs({1..n : n \in 1..MaxGroups}, {"none"}, {TRUE},
                  {<<FavTrack, FavContainer>>},
                  {Singles(n) : n \in 0..MaxGroups}
                      \cup {Joined(n) : n \in 2..MaxGroups},
                  GroupAnswers)

NextGroups ==
    \/ \E in \in GroupStartups : Startup(in)
    \/ \E dev \in GroupAnswers : EngineTick(dev)
    \/ \E dev \in CallOutcomes : EngineRecv(dev)
    \/ EngineClosed
    \/ \E dev \in CallOutcomes : EngineDrain(dev)
    \/ \E dev \in GroupAnswers : EngineDrained(dev)
    \/ EngineSendUpdate
    \/ \E key \in GroupKeys : UiKey(key)
    \/ UiSendResume
    \/ UiRecvUpdate

SpecGroups == Init /\ [][NextGroups]_vars

\* ---- A session in which the operator presses the given keys and never
\* quits, after one of the given startups, with the given refresh answers.
Session(keys, startups, answers) ==
    \/ \E in \in startups : Startup(in)
    \/ \E dev \in answers : EngineTick(dev)
    \/ \E dev \in CallOutcomes : EngineRecv(dev)
    \/ \E dev \in CallOutcomes : EngineDrain(dev)
    \/ \E dev \in answers : EngineDrained(dev)
    \/ EngineSendUpdate
    \/ \E key \in keys : UiKey(key)
    \/ UiSendResume
    \/ UiRecvUpdate

\* The favorites fetch fails or returns up to MaxFavorites entries; one
\* device, one group, refreshes that succeed.
MaxFavorites == 2

FavList(n) == [i \in 1..n |-> IF i % 2 = 1 THEN FavTrack ELSE FavContainer]

LocalAnswers == AnswersFailing({"none"})
LocalStartups ==
    StartupInputs({{1}}, {"none"}, BOOLEAN,
                  {FavList(n) : n \in 0..MaxFavorites}, {Singles(1)},
                  LocalAnswers)

\* ---- SpecLocal: the operator switches between the two views and moves
\* down the favorites (j means nothing while the queue is showing).
LocalKeys == {"1", "2", "j"}
SpecLocal == Init /\ [][Session(LocalKeys, LocalStartups, LocalAnswers)]_vars

\* ---- SpecNavigate: the operator opens the favorites and moves up and down.
NavigateKeys == {"2", "j", "k"}
SpecNavigate ==
    Init /\ [][Session(NavigateKeys, LocalStartups, LocalAnswers)]_vars

\* ---- SpecTransport: the operator drives playback and volume.  The engine
\* found the device that coordinates the first group, or only another one, or
\* the device reports no group at all.
TransportKeys == {"Space", "n", "p", "[", "]"}
TransportStartups ==
    StartupInputs({{1}, {2}}, {"none"}, {TRUE}, {FavList(1)},
                  {Singles(n) : n \in 0..MaxGroups}, GroupAnswers)
SpecTransport ==
    Init /\ [][Session(TransportKeys, TransportStartups, GroupAnswers)]_vars

\* ---- SpecVolume: the operator only turns the volume down and up.
VolumeKeys == {"[", "]"}
SpecVolume ==
    Init /\ [][Session(VolumeKeys, TransportStartups, GroupAnswers)]_vars

\* ---- SpecFavorites: the operator opens the favorites, moves down and plays
\* the selected one.  The engine found the coordinator or only another device.
FavoritesKeys == {"2", "j", "Enter"}
FavoritesStartups ==
    StartupInputs({{1}, {2}}, {"none"}, BOOLEAN,
                  {FavList(n) : n \in 0..MaxFavorites}, {Singles(1)},
                  LocalAnswers)
SpecFavorites ==
    Init /\ [][Session(FavoritesKeys, FavoritesStartups, LocalAnswers)]_vars

\* ---- SpecResolve: up to MaxProvided addresses and as many names are given
\* on the command line, each with the answer its lookup gets; discovery, if it
\* runs, finds the coordinator or fails; the rest of the startup succeeds.
MaxProvided == 2

Lookups(n) ==
    UNION {[1..k -> {Found(d) : d \in 1..MaxGroups} \cup {NotFound, Failed}] :
              k \in 0..n}
ProvidedDevices == [ips : Lookups(MaxProvided), names : Lookups(MaxProvided)]

InitResolve == provided_devices \in ProvidedDevices /\ Constructed

ResolveKeys == {"Space"}
ResolveStartups ==
    StartupInputs({{1}}, {"none", "get_speakers"}, {TRUE}, {FavList(1)},
                  {Singles(1)}, LocalAnswers)
SpecResolve ==
    InitResolve
    /\ [][Session(ResolveKeys, ResolveStartups, LocalAnswers)]_vars

\* ---- SpecAbort: discovery finds no device or the coordinator, the topology
\* query fails or succeeds; nothing else fails during the startup.
AbortStartups ==
    StartupInputs({{}, {1}}, {"none", "zone_group_state"}, {TRUE},
                  {FavList(1)}, {Singles(1)}, LocalAnswers)
SpecAbort ==
    Init /\ [][Session(ResolveKeys, AbortStartups, LocalAnswers)]_vars

\* ---- SpecStartup: every way a startup can go.  Discovery finds nothing,
\* the first device or only the second; any startup call fails; the
\* favorites fetch fails or returns MaxFavorites entries; the device reports
\* groups of one, a joined group, or a group without its coordinator; the
\* first refresh fails at its first query, at its last, or not at all.
StartupTopologies ==
    {Singles(n) : n \in 0..MaxGroups}
        \cup {Joined(n) : n \in 2..MaxGroups}
        \cup {Middle(n) : n \in 2..MaxGroups}
        \cup {Broken(2)}
AllStartups ==
    StartupInputs({{}, {1}, {2}}, StartupFailures, BOOLEAN,
                  {FavList(MaxFavorites)}, StartupTopologies,
                  AnswersFailing({"none", "is_playing", "queue"}))
SpecStartup ==
    Init /\ [][Session(ResolveKeys, AllStartups, LocalAnswers)]_vars

\* ---- SpecSelect: the operator changes the group, opens the favorites and
\* plays the first one.  There are two groups, each a device of its own, and
\* the engine found both.
SelectKeys == {"Tab", "2", "Enter"}
SelectStartups ==
    StartupInputs({{1, 2}}, {"none"}, {TRUE}, {FavList(1)}, {Singles(2)},
                  LocalAnswers)
SpecSelect ==
    Init /\ [][Session(SelectKeys, SelectStartups, LocalAnswers)]_vars

\* ---- FairSelect: the operator changes the group and never quits; there
\* are two groups and the engine found both.  The engine task is polled until
\* it completes: a device call returns, the timer fires every second, select!
\* picks at random among its ready branches, a send into the update channel
\* completes once there is room.
LiveKeys == {"Tab"}
LiveNext == Session(LiveKeys, SelectStartups, LocalAnswers)
LiveFairness ==
    /\ WF_vars(\E in \in SelectStartups : Startup(in))
    /\ SF_vars(\E dev \in LocalAnswers : EngineTick(dev))
    /\ SF_vars(\E dev \in CallOutcomes : EngineRecv(dev))
    /\ WF_vars(\E dev \in CallOutcomes : EngineDrain(dev))
    /\ WF_vars(\E dev \in LocalAnswers : EngineDrained(dev))
    /\ WF_vars(EngineSendUpdate)
FairSelect == Init /\ [][LiveNext]_vars /\ LiveFairness

\* ================================================================= claims
\* The engine handles the command at the head of the command channel in this
\* step (recv or try_recv followed by handle_command).
Handles(type) ==
    /\ phase = "Running"
    /\ cmd_chan # <<>>
    /\ cmd_chan' = Tail(cmd_chan)
    /\ Head(cmd_chan).type = type

\* The snapshots that have been published: those in the update channel and
\* the one the presentation loop holds.
Published ==
    {update_chan[i] : i \in 1..Len(update_chan)}
        \cup (IF ui_state.tag = "Ready" THEN {ui_state.s} ELSE {})

\* C1: after startup, with a non-empty group list, the selected group index
\* is below the number of groups, in the engine and in every published
\* snapshot, so group_name() never indexes out of bounds.
C1_SelectedGroupInRange ==
    /\ (phase = "Running" /\ groups # <<>>) => selected_group < Len(groups)
    /\ \A snap \in Published :
          snap.group_names # <<>> => snap.selected_group < Len(snap.group_names)

\* C2: with G >= 1 groups and a valid index, PrevSpeaker at 0 leaves the
\* index at G-1 and elsewhere decrements it; NextSpeaker at G-1 leaves it at
\* 0 and elsewhere increments it.
C2_SelectionWraps ==
    [][LET G == Len(groups)
           i == selected_group
       IN  (G >= 1 /\ i < G) =>
             /\ Handles("PrevSpeaker") =>
                   selected_group' = IF i = 0 THEN G - 1 ELSE i - 1
             /\ Handles("NextSpeaker") =>
                   selected_group' = IF i = G - 1 THEN 0 ELSE i + 1]_vars

\* C3: from every valid index, NextSpeaker then PrevSpeaker returns to the
\* index, and so does PrevSpeaker then NextSpeaker.
C3_SelectionRoundTrip ==
    (phase = "Running" /\ selected_group < Len(groups)) =>
        \A dev \in CallOutcomes :
            LET after(e, cmd) == handle_command(e, cmd, dev).e
            IN  /\ after(after(Engine, NextSpeaker), PrevSpeaker).selected_group
                       = selected_group
                /\ after(after(Engine, PrevSpeaker), NextSpeaker).selected_group
                       = selected_group

\* The engine makes a refresh call in this step of the loop.
RefreshCall == wake'.refreshes = wake.refreshes + 1

\* C4: a refresh call that fails leaves the four cached fields as they were
\* before the call.
C4_FailedRefreshKeepsCache ==
    [][(RefreshCall /\ wake'.refresh = "Err") => UNCHANGED cacheVars]_vars

\* All four cached fields were assigned by one refresh call, or none ever was.
Coherent(tags) ==
    \/ \A f \in Fields : tags[f] = "init"
    \/ \A f \in Fields : tags[f] = "last"

\* The engine puts a snapshot in the update channel in this step.
Publishes == update_chan' = Append(update_chan, build_state)

\* C5: every snapshot the engine publishes holds four playback fields read
\* by one and the same refresh call (or the four initial defaults).
C5_SnapshotFromOneRefresh ==
    [][Publishes => Coherent(readIn)]_vars

\* The last step of a wake of the given kind: send_update returns.
WakeEnds(kind) == wake.kind = kind /\ wake'.kind = "none"

\* C6 as stated: a command wake makes exactly one refresh call if one of its
\* commands requested it and none otherwise, and publishes exactly one Update.
C6_OneRefreshOnePublish ==
    [][/\ wake'.kind = "cmd" =>
            /\ Len(update_chan') <= Len(update_chan)
            /\ wake'.refreshes <= 1
       /\ WakeEnds("cmd") =>
            /\ wake.refreshes = IF wake.requested THEN 1 ELSE 0
            /\ Publishes]_vars

\* C6 amended: ... and makes exactly one send on the update channel, which
\* publishes exactly one Update unless the presentation loop has dropped the
\* receiver (then the send fails and nothing is published).
C6_OneRefreshOneSend ==
    [][/\ wake'.kind = "cmd" =>
            /\ Len(update_chan') <= Len(update_chan)
            /\ wake'.refreshes <= 1
       /\ WakeEnds("cmd") =>
            /\ wake.refreshes = IF wake.requested THEN 1 ELSE 0
            /\ IF update_rx_open THEN Publishes ELSE UNCHANGED update_chan]_vars

\* A command wake that handled at least two commands, one of which requested
\* a refresh, has made its one refresh call and is in send_update.
C6_Witness ==
    /\ pc = "send_update" /\ wake.kind = "cmd"
    /\ wake.cmds >= 2 /\ wake.requested /\ wake.refreshes = 1

\* C7: the engine is never suspended in send_update on a full update channel
\* while the presentation loop is suspended in cmd_tx.send on a full command
\* channel.
C7_NoMutualWait ==
    ~(/\ phase = "Running" /\ pc = "send_update"
      /\ update_rx_open /\ Len(update_chan) = UpdateCapacity
      /\ ui_pc = "send" /\ Len(cmd_chan) = CommandCapacity)

C9_ClosureShutsDown ==
    /\ [][(phase = "Running" /\ phase' = "Terminated") =>
             /\ cmd_chan = <<>> /\ ~cmd_tx_open
             /\ result' = "Ok"
             /\ UNCHANGED <<update_chan, cacheVars>>]_vars
    /\ (phase = "Running" /\ ~cmd_tx_open) ~> (phase = "Terminated")

\* The engine has left the loop with Ok after the senders were dropped.
C9_Witness == phase = "Terminated" /\ result = "Ok" /\ ~cmd_tx_open

\* C10 as stated: a tick makes exactly one refresh call and then publishes
\* exactly one Update, whatever the refresh returned.
C10_TickRefreshesAndPublishes ==
    [][/\ (wake.kind = "none" /\ wake'.kind = "tick") =>
            /\ wake'.refreshes = 1 /\ pc' = "send_update"
            /\ UNCHANGED update_chan
       /\ (wake.kind = "tick" /\ wake'.kind = "tick") =>
            /\ wake' = wake /\ Len(update_chan') <= Len(update_chan)
       /\ WakeEnds("tick") => Publishes]_vars

\* C10 amended: ... and then makes exactly one send on the update channel,
\* which publishes exactly one Update unless the receiver has been dropped.
C10_TickRefreshesAndSends ==
    [][/\ (wake.kind = "none" /\ wake'.kind = "tick") =>
            /\ wake'.refreshes = 1 /\ pc' = "send_update"
            /\ UNCHANGED update_chan
       /\ (wake.kind = "tick" /\ wake'.kind = "tick") =>
            /\ wake' = wake /\ Len(update_chan') <= Len(update_chan)
       /\ WakeEnds("tick") =>
            IF update_rx_open THEN Publishes ELSE UNCHANGED update_chan]_vars

\* A tick whose refresh failed has reached send_update.
C10_Witness ==
    pc = "send_update" /\ wake.kind = "tick" /\ wake.refresh = "Err"

\* The commands in flight: buffered in the command channel or held by a
\* suspended cmd_tx.send.
InFlight ==
    {cmd_chan[i].type : i \in 1..Len(cmd_chan)}
        \cup (IF ui_pc = "send" THEN {ui_cmd.type} ELSE {})

\* What handle_command returns for the command at the head of the command
\* channel, for each way its device calls can end.
HeadOutcomes ==
    {handle_command(Engine, Head(cmd_chan), dev) : dev \in CallOutcomes}

GroupSelection == {"NextSpeaker", "PrevSpeaker"}

\* C11 as stated: handling NextSpeaker or PrevSpeaker changes only the
\* selected group index, makes no device call and returns Ok(false), so a wake
\* of group-selection commands only makes no refresh call.
C11_SelectionRequestsNoRefresh ==
    [][/\ InFlight \subseteq GroupSelection
       /\ (\E type \in GroupSelection : Handles(type)) =>
            /\ UNCHANGED <<groups, speakers_by_uuid, current_view, favorites,
                           selected_favorite, cacheVars>>
            /\ \A r \in HeadOutcomes : r.calls = <<>> /\ r.res = "false"
            /\ ~needs_refresh'
       /\ WakeEnds("cmd") => wake.refreshes = 0]_vars

\* C11 amended: ... makes no device call and returns Ok(true): a refresh is
\* requested, so a wake of group-selection commands only makes exactly one
\* refresh call.
C11_SelectionRequestsRefresh ==
    [][/\ InFlight \subseteq GroupSelection
       /\ (\E type \in GroupSelection : Handles(type)) =>
            /\ UNCHANGED <<groups, speakers_by_uuid, current_view, favorites,
                           selected_favorite, cacheVars>>
            /\ \A r \in HeadOutcomes : r.calls = <<>> /\ r.res = "true"
            /\ needs_refresh'
       /\ WakeEnds("cmd") => wake.refreshes = 1]_vars

\* A wake that handled two group-selection commands, moved the selection and
\* made its one refresh call.
C11_Witness ==
    /\ pc = "send_update" /\ wake.kind = "cmd" /\ wake.cmds >= 2
    /\ selected_group # 0 /\ wake.refreshes = 1

\* The engine data other than the view mode and the two selections.
Rest == <<groups, speakers_by_uuid, favorites, cacheVars>>

\* The refresh flag after handling a command that returned Ok(false): reset
\* by the first command of a wake, kept by a drained one.
FlagKept == needs_refresh' = (pc = "drain" /\ needs_refresh)

\* C12: handling SwitchView, NavigateFavorites or Nop makes no device call,
\* returns Ok(false) and leaves the selected group and the cache unchanged;
\* SwitchView changes only the view mode, NavigateFavorites only the selected
\* favorite, Nop nothing.
C12_LocalCommandsAreLocal ==
    [][/\ (\E type \in {"SwitchView", "NavigateFavorites", "Nop"} :
              Handles(type)) =>
            /\ \A r \in HeadOutcomes : r.calls = <<>> /\ r.res = "false"
            /\ FlagKept
            /\ UNCHANGED <<selected_group, Rest>>
       /\ Handles("SwitchView") =>
            /\ current_view' = Head(cmd_chan).s
            /\ UNCHANGED selected_favorite
       /\ Handles("NavigateFavorites") => UNCHANGED current_view
       /\ Handles("Nop") => UNCHANGED <<current_view, selected_favorite>>]_vars

\* A wake of two view and navigation commands has left the Favorites view
\* showing, the second favorite selected, and goes on to publish with no
\* refresh call.
C12_Witness ==
    /\ pc = "send_update" /\ wake.kind = "cmd" /\ wake.cmds >= 2
    /\ current_view = "Favorites" /\ selected_favorite = 1
    /\ wake.refreshes = 0

\* Up at 0 and Down at the last index leave the index where it is; the other
\* moves are by one.
Saturates ==
    Handles("NavigateFavorites") =>
        selected_favorite' =
            IF Head(cmd_chan).s = "Up"
            THEN (IF selected_favorite = 0 THEN 0 ELSE selected_favorite - 1)
            ELSE (IF selected_favorite + 1 >= Len(favorites)
                  THEN selected_favorite ELSE selected_favorite + 1)

\* C15 as stated: in every state, for every favorites list (the empty one
\* included), the selected favorite index is below the favorites length, and
\* navigation saturates at both ends.
C15_FavoriteIndexBelowLength ==
    [][/\ selected_favorite' < Len(favorites')
       /\ Saturates]_vars

\* C15 amended: the selected favorite index is below the favorites length
\* whenever the list is not empty and is 0 while it is empty, and navigation
\* saturates at both ends.
C15_FavoriteIndexInList ==
    [][/\ IF favorites' = <<>> THEN selected_favorite' = 0
          ELSE selected_favorite' < Len(favorites')
       /\ Saturates]_vars

\* Down has been handled at the last index of a list of two or more: the
\* wake's two commands left the index at length-1.
C15_Witness ==
    /\ pc = "drain" /\ wake.cmds >= 2 /\ Len(favorites) >= 2
    /\ selected_favorite = Len(favorites) - 1
    /\ cmd_chan # <<>> /\ Head(cmd_chan) = NavigateFavorites("Down")

TransportTypes == {"Play", "Pause", "Next", "Prev", "VolAdjust"}

\* The device operation each transport or volume command stands for.
OpOf(type) ==
    CASE type = "Play" -> "play"
      [] type = "Pause" -> "pause"
      [] type = "Next" -> "next"
      [] type = "Prev" -> "previous"
      [] type = "VolAdjust" -> "set_volume_relative"

\* No coordinator device resolves: the index is out of range or the selected
\* group's coordinator is not a key of speakers_by_uuid.
Unresolved ==
    \/ selected_group >= Len(groups)
    \/ groups[selected_group + 1].coordinator \notin speakers_by_uuid

\* The refresh flag after this step is the flag before it (false at the first
\* command of a wake), set if the command returned Ok(true).
FlagFollows ==
    needs_refresh' \in {(pc = "drain" /\ needs_refresh) \/ r.res = "true" :
                            r \in HeadOutcomes}

\* C13: a transport or volume command fails, with no device call and no
\* refresh requested, when no coordinator resolves; otherwise it makes exactly
\* the one corresponding call on the coordinator and requests a refresh if the
\* call succeeds.
C13_TransportResolvesCoordinator ==
    [][\A type \in TransportTypes : Handles(type) =>
          /\ UNCHANGED <<selected_group, current_view, selected_favorite, Rest>>
          /\ FlagFollows
          /\ IF Unresolved
             THEN /\ \A r \in HeadOutcomes : r.res = "Err" /\ r.calls = <<>>
                  /\ FlagKept
             ELSE \A dev \in CallOutcomes :
                     LET r == handle_command(Engine, Head(cmd_chan), dev)
                     IN  /\ Len(r.calls) = 1
                         /\ r.calls[1].op = OpOf(type)
                         /\ r.calls[1].speaker =
                               {groups[selected_group + 1].coordinator}
                         /\ r.res = IF dev.first THEN "true" ELSE "Err"]_vars

\* A transport command has been handled while the selected group's
\* coordinator is not among the devices found: no refresh is requested.
C13_Witness ==
    /\ pc = "drain" /\ wake.kind = "cmd" /\ ~wake.requested
    /\ groups # <<>> /\ Unresolved

\* C14: a command that fails does not set the refresh flag (the flag is set
\* exactly when a command of the wake returned Ok(true)), the drain goes on
\* until the command channel is empty, and the wake still ends in send_update,
\* which publishes the wake's Update.
C14_FailedCommandIsSkipped ==
    [][/\ (\E type \in TransportTypes : Handles(type)) =>
            /\ phase' = "Running" /\ pc' = "drain"
            /\ needs_refresh' = wake'.requested
            /\ Unresolved => FlagKept
       /\ (pc = "drain" /\ pc' # "drain") =>
            cmd_chan = <<>> /\ pc' = "send_update"
       /\ WakeEnds("cmd") =>
            IF update_rx_open THEN Publishes ELSE UNCHANGED update_chan]_vars

\* A wake handled two commands, both failed (none requested a refresh), no
\* refresh call was made and the engine is in send_update.
C14_Witness ==
    /\ pc = "send_update" /\ wake.kind = "cmd" /\ wake.cmds >= 2
    /\ ~wake.requested /\ wake.refreshes = 0

\* Largest volume delta tried, in either direction.
MaxDelta == 3

\* For each delta, the calls VolAdjust makes on the resolved coordinator: one
\* set_volume_relative with the delta as it is.
PassesDelta ==
    \A d \in (0 - MaxDelta)..MaxDelta : \A dev \in CallOutcomes :
        handle_command(Engine, VolAdjust(d), dev).calls =
            <<Call("set_volume_relative",
                   {groups[selected_group + 1].coordinator}, <<d>>)>>

Ops(calls) == [i \in 1..Len(calls) |-> calls[i].op]

\* The engine handles a PlayFavorite whose index is in the list, with a
\* coordinator that resolves.
PlaysFavorite ==
    /\ Handles("PlayFavorite")
    /\ Head(cmd_chan).n < Len(favorites)
    /\ ~Unresolved

\* The history records what this step's PlayFavorite returned and called.
PlayedRecorded ==
    wake'.played \in {[res |-> r.res, calls |-> r.calls] : r \in HeadOutcomes}

\* The calls of a PlayFavorite of fav when every call succeeds.
ExpectedOps(fav) ==
    IF StartsWith(html_unescape(fav.uri), <<ContainerScheme>>)
    THEN <<"clear_queue", "AddURIToQueue", "play">>
    ELSE <<"clear_queue", "queue_next", "next">>

\* C16: PlayFavorite(i) with a valid index (and a coordinator to call), every
\* device call succeeding: the queue clear first, then one AddURIToQueue and
\* one play if the unescaped URI has the container scheme, one queue_next and
\* one next otherwise, nothing else; and a refresh is requested.
C16_PlayFavoriteCalls ==
    [][PlaysFavorite =>
          LET expected == ExpectedOps(favorites[Head(cmd_chan).n + 1])
              coordinator == groups[selected_group + 1].coordinator
          IN  /\ \A dev \in CallOutcomes :
                    (dev.clear_queue /\ dev.first /\ dev.second) =>
                        LET r == handle_command(Engine, Head(cmd_chan), dev)
                        IN  /\ Ops(r.calls) = expected
                            /\ \A i \in 1..Len(r.calls) :
                                  r.calls[i].speaker = {coordinator}
                            /\ r.res = "true"
              /\ PlayedRecorded
              /\ wake'.played.res = "true" =>
                    /\ Ops(wake'.played.calls) = expected
                    /\ needs_refresh' /\ wake'.requested]_vars

\* A PlayFavorite of a container has succeeded: queue clear, AddURIToQueue,
\* play, and the wake will refresh.
C16_Witness ==
    /\ pc = "drain" /\ needs_refresh
    /\ wake.played.res = "true"
    /\ Ops(wake.played.calls) = <<"clear_queue", "AddURIToQueue", "play">>

\* C17: in a PlayFavorite with a valid index, the queue clear's failure
\* changes nothing (the later calls are issued, the command can succeed); the
\* failure of a later call fails the command, no call follows the failing
\* one, and no refresh is requested.
C17_PlayFavoriteFailures ==
    [][PlaysFavorite =>
          /\ \A dev \in CallOutcomes :
                LET r == handle_command(Engine, Head(cmd_chan), dev)
                    same == handle_command(Engine, Head(cmd_chan),
                                           [dev EXCEPT !.clear_queue = TRUE])
                IN  /\ r = same
                    /\ Len(r.calls) >= 2 /\ r.calls[1].op = "clear_queue"
                    /\ ~dev.first => r.res = "Err" /\ Len(r.calls) = 2
                    /\ (dev.first /\ ~dev.second) =>
                          r.res = "Err" /\ Len(r.calls) = 3
                    /\ (dev.first /\ dev.second) => r.res = "true"
          /\ PlayedRecorded
          /\ wake'.played.res = "Err" => FlagKept]_vars

\* A PlayFavorite has failed at the call after the queue clear: two calls
\* made, no refresh requested.
C17_Witness ==
    /\ pc = "drain" /\ ~needs_refresh
    /\ wake.played.res = "Err"
    /\ Len(wake.played.calls) = 2

\* C18: PlayFavorite(i) with i outside the favorites list (any i when the list
\* is empty) makes no device call, changes nothing in the engine, returns
\* Ok(false).
C18_InvalidFavoriteIsNoop ==
    [][/\ phase = "Running" =>
            \A i \in Len(favorites)..(MaxFavorites + 1) :
                \A dev \in CallOutcomes :
                    handle_command(Engine, PlayFavorite(i), dev)
                        = Outcome("false", Engine, <<>>)
       /\ (Handles("PlayFavorite") /\ Head(cmd_chan).n >= Len(favorites)) =>
            /\ wake'.played = [res |-> "false", calls |-> <<>>]
            /\ FlagKept
            /\ UNCHANGED <<selected_group, current_view, selected_favorite,
                           Rest>>]_vars

\* With no favorites, a PlayFavorite has been handled and returned Ok(false).
C18_Witness ==
    /\ pc = "drain" /\ favorites = <<>>
    /\ wake.played = [res |-> "false", calls |-> <<>>]

\* Some entry of the provided lists resolves to a device.
SomeResolves(provided) ==
    Resolved(provided.ips) \cup Resolved(provided.names) # {}

\* The startup ends in this step.
StartupEnds == phase = "Initializing" /\ phase' # "Initializing"

\* C20: a provided address or name whose lookup fails is dropped and the
\* others are still resolved: whenever at least one of them resolves, the
\* startup succeeds with the devices that resolved.
C20_FailedLookupIsDropped ==
    [][(StartupEnds /\ SomeResolves(provided_devices)) =>
          /\ phase' = "Running"
          /\ speakers_by_uuid' = Resolved(provided_devices.ips)
                                    \cup Resolved(provided_devices.names)]_vars

\* The same for the addresses alone, and for names that are only not found.
C20_FailedAddressIsDropped ==
    [][(/\ StartupEnds
        /\ SomeResolves(provided_devices)
        /\ \A i \in 1..Len(provided_devices.names) :
              provided_devices.names[i].answer # "Err") =>
          /\ phase' = "Running"
          /\ speakers_by_uuid' = Resolved(provided_devices.ips)
                                    \cup Resolved(provided_devices.names)]_vars

\* What get_speakers returns in a startup with inputs in.
Speakers(in) ==
    get_speakers(provided_devices,
                 Discovery(in.fail # "get_speakers", in.found))

\* The startup was aborted: the engine ended without a device set.
StartupAborted == phase = "Terminated" /\ speakers_by_uuid = {}

\* C21: a startup whose device set is empty or whose topology query fails
\* takes the engine from Initializing to Terminated with an error; the engine
\* is never Running and no Update is ever published.
C21_StartupAborts ==
    /\ [][\A in \in AbortStartups :
            (/\ Startup(in)
             /\ Speakers(in).devices = {} \/ in.fail = "zone_group_state") =>
                /\ phase' = "Terminated" /\ result' = "Err"
                /\ UNCHANGED <<update_chan, ui_state>>]_vars
    /\ [](StartupAborted =>
            /\ result = "Err"
            /\ update_chan = <<>>
            /\ ui_state = Connecting)
    /\ [][phase = "Terminated" => phase' = "Terminated"]_vars

\* The startup was aborted with an error: nothing was published and the
\* presentation loop still shows Connecting.
C21_Witness ==
    /\ StartupAborted /\ result = "Err"
    /\ update_chan = <<>> /\ ui_state = Connecting

\* The first refresh of a startup with inputs in, were it reached.
FirstRefresh(in) ==
    refresh_state(Cache,
                  [i \in 1..Len(in.topology) |->
                      [coordinator |-> in.topology[i].coordinator,
                       speakers |-> <<>>]],
                  selected_group, Speakers(in).devices, in.refresh)

\* The device reports a group whose coordinator is not one of its members.
ReportsBroken(in) ==
    \E i \in 1..Len(in.topology) :
        \A j \in 1..Len(in.topology[i].members) :
            in.topology[i].members[j] # in.topology[i].coordinator

\* A startup call other than the favorites fetch and the first refresh fails.
Fatal(in) ==
    \/ Speakers(in).res = "Err"
    \/ Speakers(in).devices = {}
    \/ in.fail \in {"uuid", "zone_group_state"}
    \/ ReportsBroken(in)

\* C22 as stated: every failure during the startup other than a favorites
\* fetch failure, the first refresh's included, ends the engine before the loop.
C22_EveryFailureIsFatal ==
    [][\A in \in AllStartups :
          (Startup(in) /\ (Fatal(in) \/ ~FirstRefresh(in).ok)) =>
              phase' = "Terminated"]_vars

\* C22: a failure of device resolution, of a uuid query, of the topology
\* query or of a group's construction ends the engine before the loop; a
\* startup in which none of these fails enters the loop, whether or not the
\* favorites fetch and the first refresh succeed.
C22_FailureBeforeRefreshIsFatal ==
    [][\A in \in AllStartups :
          Startup(in) =>
              IF Fatal(in)
              THEN /\ phase' = "Terminated"
                   /\ result' \in {"Err", "Panic"}
                   /\ UNCHANGED <<update_chan, groups, speakers_by_uuid>>
              ELSE phase' = "Running"]_vars

\* The engine is in the loop, about to wait for the first time, and no cached
\* field has been assigned: the first refresh failed.
C22_Witness ==
    /\ phase = "Running" /\ pc = "select"
    /\ update_chan = <<>> /\ ui_state = Connecting
    /\ \A f \in Fields : readIn[f] = "init"

\* The group model built from the report of a startup with inputs in.
Built(in) ==
    [i \in 1..Len(in.topology) |->
        LET g == SpeakerGroup_new(in.topology[i].coordinator,
                                  in.topology[i].members)
        IN  [coordinator |-> g.coordinator, speakers |-> g.speakers]]

\* C23: a startup whose favorites fetch fails (and in which nothing fatal
\* fails) enters the loop with the group model built, the favorites list empty
\* and the selected favorite 0; the fetch's failure never ends the engine.
C23_FetchFailureIsNotFatal ==
    [][\A in \in AllStartups :
          (Startup(in) /\ ~in.fetch_ok) =>
              /\ phase' = "Terminated" <=> Fatal(in)
              /\ favorites' = <<>> /\ selected_favorite' = 0
              /\ ~Fatal(in) =>
                    /\ phase' = "Running"
                    /\ groups' = Built(in)
                    /\ speakers_by_uuid' = Speakers(in).devices]_vars

\* The engine is in the loop with groups and without favorites: the fetch,
\* which returns MaxFavorites entries when it succeeds, failed.
C23_Witness ==
    /\ phase = "Running"
    /\ groups # <<>>
    /\ favorites = <<>> /\ selected_favorite = 0

\* C24: in the Running state the coordinator of every group is a key of the
\* engine's device set, whatever devices were resolved and whatever topology
\* the queried device reported.
C24_CoordinatorsAreDevices ==
    phase = "Running" =>
        \A i \in 1..Len(groups) : groups[i].coordinator \in speakers_by_uuid

\* The members of a report other than its coordinator, in reported order.
Others(report) ==
    SelectSeq(report.members, LAMBDA m : m # report.coordinator)

\* Every group is built from the report at its position: coordinator first,
\* then the other members in reported order.
BuiltFrom(topology, grps) ==
    /\ Len(grps) = Len(topology)
    /\ \A i \in 1..Len(grps) :
          /\ grps[i].coordinator = topology[i].coordinator
          /\ grps[i].speakers =
                <<topology[i].coordinator>> \o Others(topology[i])
          /\ {grps[i].speakers[j] : j \in 1..Len(grps[i].speakers)}
                = {topology[i].members[j] : j \in 1..Len(topology[i].members)}
          /\ Len(grps[i].speakers) = Len(topology[i].members)

\* C25: the groups of a startup that reaches the loop are the reported ones
\* with the coordinator moved to the front and the other members in their
\* reported order; a startup that gets a report whose coordinator is not a
\* member panics and builds no group.
C25_CoordinatorFirst ==
    [][\A in \in AllStartups :
          Startup(in) =>
              /\ phase' = "Running" => BuiltFrom(in.topology, groups')
              /\ (ReportsBroken(in) /\ result' # "Err") =>
                    /\ phase' = "Terminated" /\ result' = "Panic"
                    /\ groups' = <<>>
              /\ \A i \in 1..Len(in.topology) :
                    SpeakerGroup_new(in.topology[i].coordinator,
                                     in.topology[i].members).panic
                        <=> ReportsBroken([topology |-> <<in.topology[i]>>])]_vars

\* The engine is in the loop with a group of three whose coordinator, reported
\* second, is first, followed by the other two in reported order.
C25_Witness ==
    /\ phase = "Running"
    /\ \E i \in 1..Len(groups) :
          /\ Len(groups[i].speakers) = 3
          /\ groups[i].speakers[1] = groups[i].coordinator
          /\ groups[i].speakers[2] < groups[i].coordinator
          /\ groups[i].coordinator < groups[i].speakers[3]

\* The coordinator of the group selected now, if the index is in range and
\* the coordinator is one of the engine's devices.
SelectedCoordinator ==
    IF selected_group < Len(groups)
    THEN {groups[selected_group + 1].coordinator} \cap speakers_by_uuid
    ELSE {}

\* A refresh call is made in this step.
Refreshes ==
    /\ phase = "Running"
    /\ wake'.refreshes = (IF pc = "select" THEN 0 ELSE wake.refreshes) + 1

\* Every call of the sequence is made on the given device, and there is a
\* device if there is a call.
SentTo(calls, speaker) ==
    /\ \A k \in 1..Len(calls) : calls[k].speaker = speaker
    /\ calls # <<>> => speaker # {}

\* The engine handles a command in this step.
HandlesCommand ==
    phase = "Running" /\ cmd_chan # <<>> /\ cmd_chan' = Tail(cmd_chan)

\* C26: every device call of a transport, volume or play-favorite command
\* goes to the coordinator of the group that is selected when the command is
\* handled, first of its wake or not, and every refresh queries the
\* coordinator of the group that is selected when the refresh is made.
C26_CallsGoToSelectedCoordinator ==
    [][/\ HandlesCommand =>
            /\ \A r \in HeadOutcomes : SentTo(r.calls, SelectedCoordinator)
            /\ \A cmd \in {Play, Pause, NextTrack, PrevTrack, VolAdjust(2)} :
                  \A first \in BOOLEAN :
                      SentTo(handle_command(Engine, cmd,
                                            [clear_queue |-> TRUE,
                                             first |-> first,
                                             second |-> TRUE]).calls,
                             SelectedCoordinator)
       /\ Handles("PlayFavorite") => PlayedRecorded
       /\ Refreshes =>
            /\ wake'.target = SelectedCoordinator
            /\ UNCHANGED <<selected_group, groups, speakers_by_uuid>>]_vars

\* The last snapshot published shows the first group; in the wake that is
\* ending the engine selected the second group, then played a favorite on that
\* group's coordinator, then refreshed from it.
C26_Witness ==
    /\ pc = "send_update" /\ wake.cmds = 2 /\ wake.refreshes = 1
    /\ update_chan = <<>>
    /\ ui_state.tag = "Ready" /\ ui_state.s.selected_group = 0
    /\ selected_group = 1
    /\ wake.played.res = "true"
    /\ wake.played.calls[1].speaker = {groups[2].coordinator}
    /\ wake.target = {groups[2].coordinator}

\* The selection as the engine holds it.
Selection == <<selected_group, current_view, selected_favorite>>

\* The selection as a snapshot shows it.
SelectionOf(snap) ==
    <<snap.selected_group, snap.current_view, snap.selected_favorite>>

\* An Update is put in the update channel in this step.
Sends == Len(update_chan') > Len(update_chan)

\* C27: a command wake handles its commands one after the other with no
\* refresh and no send between them, then makes at most one refresh, then
\* sends the Update; the snapshot sent shows the selected group, the view and
\* the selected favorite as the last command of the batch left them.
C27_WakeOrder ==
    [][/\ HandlesCommand =>
            /\ pc \in {"select", "drain"} /\ pc' = "drain"
            /\ ~Sends
            /\ wake'.refreshes = 0 /\ UNCHANGED <<cacheVars, readIn>>
       /\ (pc = "drain" /\ ~HandlesCommand /\ pc' # pc) =>
            /\ cmd_chan = <<>> /\ pc' = "send_update"
            /\ wake'.refreshes = (IF needs_refresh THEN 1 ELSE 0)
            /\ ~Sends
            /\ UNCHANGED Selection
       /\ (pc = "send_update" /\ pc' # pc) =>
            /\ pc' = "select"
            /\ UNCHANGED <<Selection, cacheVars>>
            /\ update_rx_open =>
                  /\ Sends
                  /\ update_chan' = Append(update_chan, build_state)
                  /\ SelectionOf(update_chan'[Len(update_chan')]) = Selection
       /\ Sends => pc = "send_update"
       /\ (wake'.refreshes > 0 /\ wake' # wake /\ phase = "Running") =>
            pc # "send_update" /\ pc' = "send_update"]_vars

\* The presentation loop shows the first group and the queue; the one
\* snapshot waiting in the update channel shows the second group and the
\* favorites, as the engine holds them: the two commands were one batch.
C27_Witness ==
    /\ pc = "select"
    /\ ui_state.tag = "Ready"
    /\ SelectionOf(ui_state.s) = <<0, "Queue", 0>>
    /\ Len(update_chan) = 1
    /\ SelectionOf(update_chan[1]) = <<1, "Favorites", 0>>
    /\ Selection = <<1, "Favorites", 0>>

\* The selection that the outcome r of a handle_command call leaves.
SelectionAfter(r) ==
    <<r.e.selected_group, r.e.current_view, r.e.selected_favorite>>

\* C28: the command channel changes only by a send that appends one command
\* behind those waiting, or by the engine taking the oldest one and handling
\* it; a command taken is handled in the same step and is gone from the
\* channel; a tick starts only when no wake is under way.
C28_CommandsInOrder ==
    [][/\ Len(cmd_chan') > Len(cmd_chan) =>
            /\ \E c \in {ui_cmd} \cup {handle_input(key, ui_state.s) :
                                         key \in SelectKeys} :
                  cmd_chan' = Append(cmd_chan, c)
            /\ Len(cmd_chan') <= CommandCapacity
            /\ UNCHANGED <<Selection, pc, wake>>
       /\ Len(cmd_chan') < Len(cmd_chan) =>
            /\ phase = "Running" /\ pc \in {"select", "drain"}
            /\ cmd_chan' = Tail(cmd_chan)
            /\ \E r \in HeadOutcomes :
                  /\ Selection' = SelectionAfter(r)
                  /\ wake'.played =
                        Played(Head(cmd_chan), r,
                               IF pc = "select" THEN NoWake.played
                               ELSE wake.played)
            /\ wake'.cmds = IF pc = "select" THEN 1 ELSE UpTo(wake.cmds)
       /\ Len(cmd_chan') = Len(cmd_chan) => cmd_chan' = cmd_chan
       /\ (wake'.kind = "tick" /\ wake' # wake) =>
            pc = "select" /\ wake = NoWake /\ cmd_chan' = cmd_chan]_vars

\* A wake has handled PlayFavorite and then NextSpeaker, in the order they
\* were sent: the favorite went to the first group's coordinator, the second
\* group is selected now, and the channel is empty.
C28_Witness ==
    /\ pc = "drain" /\ wake.cmds = 2 /\ cmd_chan = <<>>
    /\ ui_state.tag = "Ready" /\ ui_state.s.selected_group = 0
    /\ update_chan = <<>>
    /\ selected_group = 1
    /\ wake.played.res = "true"
    /\ wake.played.calls[1].speaker = {groups[1].coordinator}

\* C29: once the engine is in the loop, no step changes the device set, the
\* group list or the favorites list, whatever command is handled and however
\* its device calls and the refreshes end.
C29_StartupDataIsFixed ==
    [][phase = "Running" =>
          /\ UNCHANGED <<speakers_by_uuid, groups, favorites>>
          /\ HandlesCommand =>
                \A r \in HeadOutcomes :
                    /\ r.e.groups = groups
                    /\ r.e.speakers_by_uuid = speakers_by_uuid
                    /\ r.e.favorites = favorites]_vars

\* Snapshots have been published, a PlayFavorite has just failed at a device
\* call, and the engine still holds its device, its group and both favorites.
C29_Witness ==
    /\ pc = "drain" /\ wake.played.res = "Err" /\ wake.played.calls # <<>>
    /\ ui_state.tag = "Ready"
    /\ speakers_by_uuid # {} /\ groups # <<>>
    /\ favorites = FavList(MaxFavorites)

\* The presentation loop keeps consuming: again and again there is room in
\* the update channel.
KeepsConsuming == []<>(Len(update_chan) < UpdateCapacity)

\* C30: if the presentation loop keeps consuming the update channel (the
\* command channel stays open and every device call returns), the engine
\* publishes an Update again and again, every wake reaches its send and
\* completes it, and the command at the head of the command channel is
\* always taken eventually.
C30_PublishesForever ==
    KeepsConsuming =>
        /\ []<><<Publishes>>_vars
        /\ (pc = "drain") ~> (pc = "send_update")
        /\ (pc = "send_update") ~> (pc = "select")
        /\ <>[](cmd_chan = <<>>) \/ []<><<HandlesCommand>>_vars

\* The same when, in addition, every batch ends: again and again the drain
\* loop is not running.
C30_PublishesUnlessFlooded ==
    (KeepsConsuming /\ []<>(pc # "drain")) =>
        /\ []<><<Publishes>>_vars
        /\ (pc = "drain") ~> (pc = "send_update")
        /\ (pc = "send_update") ~> (pc = "select")
        /\ <>[](cmd_chan = <<>>) \/ []<><<HandlesCommand>>_vars

====
